---- MODULE Spec2Model ----
(***************************************************************************)
(* failsafe: message building, location-tagged exceptions with automatic   *)
(* chaining (exception.hh) and the policy-based enforcer (enforce.hh).     *)
(*                                                                         *)
(* Text is modelled by TLA+ strings.  A failure object is a record         *)
(*   [kind, bases, what, nested]                                           *)
(* where bases is the set of handler types its dynamic type converts to    *)
(* and nested is the exception captured by std::nested_exception (NoExc    *)
(* when there is none).                                                    *)
(***************************************************************************)
EXTENDS Integers, Sequences, FiniteSets, TLC

(* ------------------------------ bounds --------------------------------- *)

\* most raises (THROW, throw, raiser invocations) in one run; it bounds the
\* nesting of handlers and the length of a failure chain
MaxRaises == 3
\* most message calls made on one enforcer instance
MaxCalls == 2
\* most enforcers created in one run
MaxEnforcers == 1
\* most log calls made by one thread
MaxLogs == 2
\* most set_backend and reset_backend calls in one run
MaxInstalls == 2
\* most set_min_level and set_enabled calls in one run
MaxStores == 2
\* most direct appends to one stream
MaxAppends == 2

(* ------------------------- program constants --------------------------- *)

FAILSAFE_LOCATION_FORMAT_STYLE == 0
FAILSAFE_LOCATION_PATH_STYLE == 0
FAILSAFE_DEFAULT_EXCEPTION == "runtime_error"
FAILSAFE_TRAP_MODE == 0
LOGGER_LEVEL_TRACE == 0
LOGGER_LEVEL_DEBUG == 1
LOGGER_LEVEL_INFO == 2
LOGGER_LEVEL_WARN == 3
LOGGER_LEVEL_ERROR == 4
LOGGER_LEVEL_FATAL == 5
LOGGER_MIN_LEVEL == LOGGER_LEVEL_TRACE
LOGGER_DEFAULT_CATEGORY_STR == "Application"

(* ------------------------------- state --------------------------------- *)

VARIABLES
    trap_mode,    \* FAILSAFE_TRAP_MODE of the build: 0, 1 or 2
    wide_shift,   \* what a shift by the operand's width or more yields in the build
    caught,       \* stack of the exceptions whose handlers are active
    inflight,     \* the exception propagating to a handler, or None
    terminated,   \* std::terminate() was called
    enf,          \* the enforcer object under observation
    eh,           \* what happened to that enforcer instance so far
    last,         \* the last operation and what it did
    nraise,       \* number of raises made so far
    nenf,         \* number of enforcers created so far
    config,       \* the global LoggerConfig
    threads,      \* where each thread is in its logger call
    sink,         \* the invocations of logger backends, in order
    peer          \* the handlers and the propagating exception of a second thread

\* the state of the logger
logging == <<config, threads, sink>>

\* the state of raising and handling in the first thread
raising == <<caught, inflight, terminated, enf, eh, nraise, nenf>>

vars == <<trap_mode, wide_shift, caught, inflight, terminated, enf, eh, last, nraise, nenf,
          logging, peer>>

(* ------------------------------- text ---------------------------------- *)

ARROW == "→"
NULL == "<null>"

Digit(d) == SubSeq("0123456789", d + 1, d + 1)

RECURSIVE NatToStr(_)
NatToStr(n) == IF n < 10 THEN Digit(n) ELSE NatToStr(n \div 10) \o Digit(n % 10)

\* operator<<(std::ostream&, int)
IntToStr(n) == IF n < 0 THEN "-" \o NatToStr(0 - n) ELSE NatToStr(n)

\* std::string(n, ' ')
RECURSIVE Spaces(_)
Spaces(n) == IF n = 0 THEN "" ELSE " " \o Spaces(n - 1)

\* std::string::find(needle) != npos
Contains(s, needle) ==
    \E i \in 1..(Len(s) - Len(needle) + 1) : SubSeq(s, i, i + Len(needle) - 1) = needle

\* std::string::back()
Back(s) == SubSeq(s, Len(s), Len(s))

(* --------------------------- output stream ----------------------------- *)

\* the formatting state and the contents of a std::ostringstream: the base and
\* uppercase flags (fmtflags), the field width, the fill character, the text
NewStream == [buf |-> "", base |-> 10, upper |-> FALSE, width |-> 0, fill |-> " "]

\* std::string(n, c), empty when n is not positive
RECURSIVE Fill(_, _)
Fill(c, n) == IF n <= 0 THEN "" ELSE c \o Fill(c, n - 1)

\* a formatted insertion of text: padded on the left with the fill character
\* up to the field width, which is then reset to 0
Put(oss, s) ==
    [oss EXCEPT !.buf = @ \o Fill(oss.fill, oss.width - Len(s)) \o s, !.width = 0]

HexDigit(d, upper) ==
    SubSeq(IF upper THEN "0123456789ABCDEF" ELSE "0123456789abcdef", d + 1, d + 1)

\* the digits of n >= 0 in the given base
RECURSIVE ToBase(_, _, _)
ToBase(n, base, upper) ==
    IF n < base THEN HexDigit(n, upper)
    ELSE ToBase(n \div base, base, upper) \o HexDigit(n % base, upper)

\* static_cast<std::make_unsigned_t<T>>(n) for a T of the given number of bits
ToUnsigned(n, bits) == IF n >= 0 THEN n ELSE n + 2 ^ bits

\* operator<< of an unsigned integer under the flags of the stream
PutUnsigned(oss, u) ==
    Put(oss, IF oss.base = 10 THEN NatToStr(u) ELSE ToBase(u, oss.base, oss.upper))

\* operator<< of a signed integer of the given number of bits
PutInt(oss, n, bits) ==
    IF oss.base = 10 THEN Put(oss, IntToStr(n)) ELSE PutUnsigned(oss, ToUnsigned(n, bits))

\* oss.flags(), and oss.flags(flags): the width and the fill are not flags
Flags(oss) == [base |-> oss.base, upper |-> oss.upper]
SetFlags(oss, flags) == [oss EXCEPT !.base = flags.base, !.upper = flags.upper]

(* ------------------------- message arguments --------------------------- *)

\* an argument of a variadic message: a bool, an int, a short, a string
\* literal or std::string, a const char* variable (which may be null), a
\* pointer to an object (address 0 is the null pointer), a std::vector
BoolArg(b) == [n |-> IF b THEN 1 ELSE 0, s |-> "", t |-> "bool"]
IntArg(n) == [n |-> n, s |-> "", t |-> "int"]
ShortArg(n) == [n |-> n, s |-> "", t |-> "short"]
StrArg(s) == [n |-> 0, s |-> s, t |-> "str"]
PtrArg(s) == [n |-> 0, s |-> s, t |-> "cstr"]
ObjPtrArg(addr) == [n |-> addr, s |-> "", t |-> "ptr"]
VectorArg(items) == [t |-> "vector", items |-> items]

\* sizeof(T) * 8
SizeBits(value) ==
    CASE value.t = "short" -> 16
      [] value.t = "int" -> 32
      [] value.t = "ptr" -> 64

\* std::numeric_limits<std::size_t>::max(), here the largest number there is
SIZE_MAX == 2147483647

\* hex(value, width, show_base, uppercase)
hex(value, width, show_base, uppercase) ==
    [width |-> width, t |-> "hex", value |-> value, show_base |-> show_base,
     uppercase |-> uppercase]

\* oct(value, width, show_base)
oct(value, width, show_base) ==
    [width |-> width, t |-> "oct", value |-> value, show_base |-> show_base]

\* bin(value, width, show_base, group_size)
bin(value, width, show_base, group_size) ==
    [width |-> width, t |-> "bin", value |-> value, show_base |-> show_base,
     group_size |-> group_size]

\* container_format<T>{value} with the default members
container_format(value) ==
    [t |-> "container", value |-> value, max_items |-> SIZE_MAX, start_index |-> 0,
     prefix |-> "[", suffix |-> "]", delimiter |-> ", ", ellipsis |-> "...",
     show_indices |-> FALSE, multiline |-> FALSE, indent |-> "  "]

\* container(value, max_items)
container(value, max_items) ==
    [container_format(value) EXCEPT
        !.max_items = IF max_items = 0 THEN SIZE_MAX ELSE max_items]

Min(a, b) == IF a < b THEN a ELSE b

\* a hex formatter that leaves the stream in hex
append_hex_format_NoRestore(oss, fmt) ==
    LET flags == Flags(oss)
        pointer == fmt.value.t = "ptr"
        value == fmt.value.n
        s1 == IF fmt.show_base
                  /\ (IF pointer THEN value # 0 ELSE (value # 0 \/ fmt.width > 0))
              THEN Put(oss, "0x") ELSE oss
        s2 == [s1 EXCEPT !.base = 16, !.upper = IF fmt.uppercase THEN TRUE ELSE @]
        s3 == IF fmt.width > 0
              THEN [s2 EXCEPT !.width = fmt.width, !.fill = "0"] ELSE s2
    IN  IF pointer /\ value = 0
        THEN Put(SetFlags(s3, flags), "nullptr")
        ELSE PutUnsigned(s3, ToUnsigned(value, SizeBits(fmt.value)))

\* append_to_stream(oss, const hex_format<T>&)
append_hex_format(oss, fmt) ==
    LET flags == Flags(oss)
        pointer == fmt.value.t = "ptr"
        value == fmt.value.n
        s1 == IF fmt.show_base
                  /\ (IF pointer THEN value # 0 ELSE (value # 0 \/ fmt.width > 0))
              THEN Put(oss, "0x") ELSE oss
        s2 == [s1 EXCEPT !.base = 16, !.upper = IF fmt.uppercase THEN TRUE ELSE @]
        s3 == IF fmt.width > 0
              THEN [s2 EXCEPT !.width = fmt.width, !.fill = "0"] ELSE s2
    IN  IF pointer /\ value = 0
        THEN Put(SetFlags(s3, flags), "nullptr")
        ELSE SetFlags(PutUnsigned(s3, ToUnsigned(value, SizeBits(fmt.value))), flags)

\* append_to_stream(oss, const oct_format<T>&)
append_oct_format(oss, fmt) ==
    LET flags == Flags(oss)
        value == fmt.value.n
        s1 == [oss EXCEPT !.base = 8]
        s2 == IF fmt.width > 0 /\ fmt.show_base /\ value # 0
              THEN [Put(s1, "0") EXCEPT !.width = fmt.width - 1, !.fill = "0"]
              ELSE IF fmt.width > 0
              THEN [s1 EXCEPT !.width = fmt.width, !.fill = "0"]
              ELSE IF fmt.show_base /\ value # 0
              THEN Put(s1, "0")
              ELSE s1
    IN  SetFlags(PutUnsigned(s2, ToUnsigned(value, SizeBits(fmt.value))), flags)

\* x >> i
RECURSIVE Shr(_, _)
Shr(x, i) == IF i = 0 THEN x ELSE Shr(x \div 2, i - 1)

\* the width of the type uvalue is promoted to before it is shifted
PromotedBits(bits) == IF bits < 32 THEN 32 ELSE bits

\* (uvalue >> i) & 1, which is undefined when i is not below the width of the
\* promoted uvalue
ShiftedBit(uvalue, i, bits) ==
    LET w == PromotedBits(bits)
    IN  IF i < w THEN Shr(uvalue, i) % 2
        ELSE IF wide_shift = "zero" THEN 0
        ELSE Shr(uvalue, i % w) % 2

\* the loop "while (temp) { bits_to_show++; temp >>= 1; }"
RECURSIVE HighestSetBit(_)
HighestSetBit(temp) == IF temp = 0 THEN 0 ELSE 1 + HighestSetBit(temp \div 2)

\* the grouping with the spaces counted from the rightmost bit
RECURSIVE BitString_FromRight(_, _, _, _, _)
BitString_FromRight(uvalue, bits, i, bit_count, group_size) ==
    IF i < 0 THEN ""
    ELSE (IF ShiftedBit(uvalue, i, bits) = 1 THEN "1" ELSE "0")
         \o (IF i > 0 /\ group_size > 0 /\ i % group_size = 0 THEN " " ELSE "")
         \o BitString_FromRight(uvalue, bits, i - 1, bit_count + 1, group_size)

\* the loop over i from bits_to_show - 1 down to 0 that builds bit_string
RECURSIVE BitString(_, _, _, _, _)
BitString(uvalue, bits, i, bit_count, group_size) ==
    IF i < 0 THEN ""
    ELSE (IF bit_count > 0 /\ group_size > 0 /\ bit_count % group_size = 0
          THEN " " ELSE "")
         \o (IF ShiftedBit(uvalue, i, bits) = 1 THEN "1" ELSE "0")
         \o BitString(uvalue, bits, i - 1, bit_count + 1, group_size)

\* append_to_stream(oss, const bin_format<T>&)
append_bin_format(oss, fmt) ==
    LET s1 == IF fmt.show_base THEN Put(oss, "0b") ELSE oss
        total_bits == SizeBits(fmt.value)
        uvalue == ToUnsigned(fmt.value.n, total_bits)
        bits_to_show == IF fmt.width = 0 /\ uvalue # 0 THEN HighestSetBit(uvalue)
                        ELSE IF fmt.width = 0 /\ uvalue = 0 THEN 1
                        ELSE fmt.width
    IN  Put(s1, BitString(uvalue, total_bits, bits_to_show - 1, 0, fmt.group_size))

RECURSIVE append_to_stream(_, _)

\* if (c) { oss << s; }
PutIf(c, oss, s) == IF c THEN Put(oss, s) ELSE oss

\* if (show_indices) { oss << "[" << index << "]: "; }
PutIndex(show_indices, oss, index) ==
    IF show_indices THEN Put(PutUnsigned(Put(oss, "["), index), "]: ") ELSE oss

\* the loop of the container formatter over the items i .. items_to_show - 1
RECURSIVE ContainerItems(_, _, _, _)
ContainerItems(oss, fmt, i, items_to_show) ==
    IF i >= items_to_show THEN oss
    ELSE ContainerItems(
             append_to_stream(
                 PutIndex(fmt.show_indices,
                     PutIf(fmt.multiline,
                         PutIf(i > 0 /\ fmt.multiline,
                             PutIf(i > 0, oss, fmt.delimiter),
                             "\n"),
                         fmt.indent),
                     fmt.start_index + i),
                 fmt.value[fmt.start_index + i + 1]),
             fmt, i + 1, items_to_show)

\* a formatter that writes the delimiter before the ellipsis also when no
\* item was shown
append_container_format_Delimiter(oss, fmt) ==
    LET size == Len(fmt.value)
        items_to_show == Min(fmt.max_items, size - fmt.start_index)
        truncated == (fmt.start_index + items_to_show) < size
    IN  IF ~(fmt.start_index < size)
        THEN Put(Put(oss, fmt.prefix), fmt.suffix)
        ELSE Put(
                 PutIf(fmt.multiline /\ (items_to_show > 0 \/ truncated),
                     PutIf(truncated,
                         PutIf(truncated /\ fmt.multiline,
                             PutIf(truncated /\ fmt.multiline,
                                 PutIf(truncated,
                                     ContainerItems(
                                         PutIf(fmt.multiline /\ items_to_show > 0,
                                               Put(oss, fmt.prefix), "\n"),
                                         fmt, 0, items_to_show),
                                     fmt.delimiter),
                                 "\n"),
                             fmt.indent),
                         fmt.ellipsis),
                     "\n"),
                 fmt.suffix)

\* append_to_stream(oss, const container_format<T>&)
append_container_format(oss, fmt) ==
    LET size == Len(fmt.value)
        items_to_show == Min(fmt.max_items, size - fmt.start_index)
        truncated == (fmt.start_index + items_to_show) < size
    IN  IF ~(fmt.start_index < size)
        THEN Put(Put(oss, fmt.prefix), fmt.suffix)
        ELSE Put(
                 PutIf(fmt.multiline /\ (items_to_show > 0 \/ truncated),
                     PutIf(truncated,
                         PutIf(truncated /\ items_to_show > 0 /\ fmt.multiline,
                             PutIf(truncated /\ items_to_show > 0 /\ fmt.multiline,
                                 PutIf(truncated /\ items_to_show > 0,
                                     ContainerItems(
                                         PutIf(fmt.multiline /\ items_to_show > 0,
                                               Put(oss, fmt.prefix), "\n"),
                                         fmt, 0, items_to_show),
                                     fmt.delimiter),
                                 "\n"),
                             fmt.indent),
                         fmt.ellipsis),
                     "\n"),
                 fmt.suffix)

\* the items of a sequence container from the k-th on, ", " between them
RECURSIVE SequenceItems(_, _, _)
SequenceItems(oss, items, k) ==
    IF k > Len(items) THEN oss
    ELSE SequenceItems(
             append_to_stream(IF k > 1 THEN Put(oss, ", ") ELSE oss, items[k]),
             items, k + 1)

\* append_to_stream(oss, value): the formatters and the generic template
append_to_stream(oss, value) ==
    CASE value.t = "hex" -> append_hex_format(oss, value)
      [] value.t = "oct" -> append_oct_format(oss, value)
      [] value.t = "bin" -> append_bin_format(oss, value)
      [] value.t = "container" -> append_container_format(oss, value)
      [] value.t = "bool" -> Put(oss, IF value.n # 0 THEN "true" ELSE "false")
      [] value.t = "cstr" -> Put(oss, IF value.s = NULL THEN "nullptr" ELSE value.s)
      [] value.t = "ptr" ->
            IF value.n = 0 THEN Put(oss, "nullptr")
            ELSE Put(oss, "0x" \o ToBase(value.n, 16, FALSE))
      [] value.t = "vector" -> Put(SequenceItems(Put(oss, "["), value.items, 1), "]")
      [] value.t = "int" -> PutInt(oss, value.n, 32)
      [] value.t = "short" -> PutInt(oss, value.n, 16)
      [] OTHER -> Put(oss, value.s)

\* the fold ((append_to_stream(oss, args), oss << " "), ...)
RECURSIVE StreamArgs(_, _)
StreamArgs(oss, args) ==
    IF args = <<>> THEN oss
    ELSE StreamArgs(Put(append_to_stream(oss, Head(args)), " "), Tail(args))

\* every trailing space removed instead of one
RECURSIVE StripTrailing(_)
StripTrailing(s) ==
    IF s # "" /\ Back(s) = " " THEN StripTrailing(SubSeq(s, 1, Len(s) - 1)) ELSE s

build_message_StripAll(args) ==
    IF Len(args) = 0 THEN "" ELSE StripTrailing(StreamArgs(NewStream, args).buf)

build_message(args) ==
    IF Len(args) = 0 THEN ""
    ELSE LET output == StreamArgs(NewStream, args).buf
         IN  IF output # "" /\ Back(output) = " "
             THEN SubSeq(output, 1, Len(output) - 1)
             ELSE output

(* ------------------------------ location ------------------------------- *)

format_file_path(file) == IF file = NULL THEN "<unknown>" ELSE file

format_location_Colon(file, line) ==
    format_file_path(file) \o ":" \o IntToStr(line) \o ":"

format_location(file, line) ==
    LET formatted_file == format_file_path(file)
    IN  CASE FAILSAFE_LOCATION_FORMAT_STYLE = 1 ->
                formatted_file \o ":" \o IntToStr(line) \o ":"
          [] FAILSAFE_LOCATION_FORMAT_STYLE = 2 ->
                "(" \o formatted_file \o ":" \o IntToStr(line) \o ")"
          [] FAILSAFE_LOCATION_FORMAT_STYLE = 3 ->
                formatted_file \o "(" \o IntToStr(line) \o "):"
          [] FAILSAFE_LOCATION_FORMAT_STYLE = 4 ->
                "@" \o formatted_file \o ":" \o IntToStr(line)
          [] FAILSAFE_LOCATION_FORMAT_STYLE = 5 ->
                formatted_file \o ":" \o IntToStr(line) \o " -"
          [] OTHER ->
                "[" \o formatted_file \o ":" \o IntToStr(line) \o "]"

append_location(file, line) == format_location(file, line)

(* --------------------------- failure objects --------------------------- *)

None == <<>>
Some(x) == <<x>>

\* failure kinds that derive from std::exception
StdKinds == {"runtime_error", "logic_error", "invalid_argument", "NoStringException"}

\* the types a handler can name to catch an object of class K
Bases(K) ==
    CASE K = "runtime_error" -> {"runtime_error", "exception"}
      [] K = "logic_error" -> {"logic_error", "exception"}
      [] K = "invalid_argument" -> {"invalid_argument", "logic_error", "exception"}
      [] K = "NoStringException" -> {"NoStringException", "exception"}
      [] OTHER -> {K}

has_string_constructor(K) == K # "NoStringException"

\* every kind constructed without the text
NewException_NoText(K, text) ==
    [kind |-> K, bases |-> Bases(K), what |-> K, nested |-> None]

\* Exception(oss.str()), or Exception() whose what() is fixed by the class
NewException(K, text) ==
    [kind |-> K, bases |-> Bases(K),
     what |-> IF has_string_constructor(K) THEN text ELSE K,
     nested |-> None]

\* std::throw_with_nested(obj) while cur is the currently handled exception:
\* the thrown object derives from both the class of obj and
\* std::nested_exception, which captured cur
throw_with_nested_Wrapper(obj, cur) ==
    [obj EXCEPT !.bases = {"nested_exception"}, !.nested = Some(cur)]

throw_with_nested(obj, cur) ==
    [obj EXCEPT !.bases = @ \cup {"nested_exception"}, !.nested = Some(cur)]

RECURSIVE ChainLen(_)
ChainLen(e) == IF e.nested = None THEN 1 ELSE 1 + ChainLen(e.nested[1])

RECURSIVE get_nested_trace_SameIndent(_, _)
get_nested_trace_SameIndent(e, indent_level) ==
    LET indent == Spaces(indent_level * 2)
        result == indent \o ARROW \o " " \o e.what \o "\n"
    IN  IF "nested_exception" \in e.bases /\ e.nested # None
        THEN LET nested == e.nested[1]
             IN  IF "exception" \in nested.bases
                 THEN result \o get_nested_trace_SameIndent(nested, indent_level)
                 ELSE result \o indent \o "  " \o ARROW
                             \o " [unknown nested exception]\n"
        ELSE result

RECURSIVE get_nested_trace(_, _)
get_nested_trace(e, indent_level) ==
    LET indent == Spaces(indent_level * 2)
        result == indent \o ARROW \o " " \o e.what \o "\n"
    IN  IF "nested_exception" \in e.bases /\ e.nested # None
        THEN LET nested == e.nested[1]
             IN  IF "exception" \in nested.bases
                 THEN result \o get_nested_trace(nested, indent_level + 1)
                 ELSE result \o indent \o "  " \o ARROW
                             \o " [unknown nested exception]\n"
        ELSE result

print_exception_info(file, line, message) ==
    "\n=== EXCEPTION TRAP ===\n"
        \o "Location: " \o format_location(file, line) \o "\n"
        \o "Message: " \o message \o "\n"
        \o "======================\n"

(* --------------------------- handler state ----------------------------- *)

\* a handled exception that is looked up in the whole process
current_exception_ProcessWide ==
    IF caught # <<>> THEN Some(caught[Len(caught)])
    ELSE IF peer.caught # <<>> THEN Some(peer.caught[Len(peer.caught)])
    ELSE None

\* std::current_exception()
current_exception == IF caught = <<>> THEN None ELSE Some(caught[Len(caught)])

\* std::current_exception() in the second thread
peer_current_exception ==
    IF peer.caught = <<>> THEN None ELSE Some(peer.caught[Len(peer.caught)])

NoEnforcer ==
    [alive |-> FALSE, value_ |-> 0, predicate_ |-> [b |-> 0, a |-> 0, p |-> "truth"],
     expr_ |-> "", file_ |-> "", line_ |-> 0, failed_ |-> FALSE, handled_ |-> FALSE,
     raiser |-> "default_raiser", depth |-> 0]

NoHistory == [checked |-> 0, written |-> FALSE, calls |-> 0, raises |-> 0]

\* the outcomes of the undefined x >> i with i not below the width of x:
\* zero, or the shift by i modulo the width
ShiftOutcomes == {"zero", "wrap"}

\* internal::default_cerr_backend, and a LoggerBackend that holds no target
default_cerr_backend == "default_cerr_backend"
NullBackend == "nullptr"

\* a function object read while it was being assigned
TornBackend == "torn"

\* LoggerConfig{}: the members, then the arguments of the set_backend and
\* reset_backend calls made so far and the number of stores to the atomics
NewConfig ==
    [backend |-> default_cerr_backend, min_level |-> LOGGER_MIN_LEVEL, enabled |-> TRUE,
     installs |-> <<>>, stores |-> 0]

\* the threads of a run
Threads == {1, 2}

\* a logger call in progress
NoCall ==
    [args |-> <<>>, file |-> "", line |-> 0, message |-> "", macro |-> "", level |-> 0,
     category |-> "", evaluated |-> FALSE, target |-> "", raced |-> None]

\* a thread that is in no logger call: the levels of the log calls it has
\* made, the call it is in, the backend it is assigning
IdleThread == [calls |-> 0, pc |-> "idle", call |-> NoCall, incoming |-> ""]

\* a second thread with no handler active and no exception propagating
NoPeer == [caught |-> <<>>, inflight |-> None]

Init ==
    /\ trap_mode = FAILSAFE_TRAP_MODE
    /\ wide_shift \in ShiftOutcomes
    /\ caught = <<>>
    /\ inflight = None
    /\ terminated = FALSE
    /\ enf = NoEnforcer
    /\ eh = NoHistory
    /\ last = [op |-> "init"]
    /\ nraise = 0
    /\ nenf = 0
    /\ config = NewConfig
    /\ threads = [t \in Threads |-> IdleThread]
    /\ sink = <<>>
    /\ peer = NoPeer

(* ------------------------------ raising -------------------------------- *)

\* what a call of throw_exception<K>(file, line, args...) does in the
\* current state: the steps it takes in order, and the object it throws
ThrownObject_NoChain(K, file, line, args) ==
    NewException(K, append_location(file, line) \o " " \o build_message(args))

ThrownObject(K, file, line, args) ==
    LET message == build_message(args)
        obj == NewException(K, append_location(file, line) \o " " \o message)
    IN  IF current_exception # None
        THEN throw_with_nested(obj, current_exception[1])
        ELSE obj

ThrowSteps(file, line, args) ==
    LET info == [text |-> print_exception_info(file, line, build_message(args)),
                 step |-> "print"]
        trap == [text |-> "", step |-> "trap"]
    IN  CASE trap_mode = 1 -> <<info, trap, [text |-> "", step |-> "throw"]>>
          [] trap_mode = 2 -> <<info, trap, [text |-> "", step |-> "terminate"]>>
          [] OTHER -> <<[text |-> "", step |-> "throw"]>>

RaiseInfo(K, file, line, args, steps) ==
    [args |-> args, file |-> file, line |-> line, kind |-> K,
     cur |-> current_exception, steps |-> steps, unwinding |-> inflight # None]

\* trap-only mode falling through to the throw
throw_exception_FallThrough(K, file, line, args) ==
    IF inflight # None
    THEN terminated' = TRUE /\ UNCHANGED inflight
    ELSE inflight' = Some(ThrownObject(K, file, line, args)) /\ UNCHANGED terminated

\* the effect of throw_exception on the propagating exception: a throw that
\* leaves a destructor while another exception is propagating terminates
throw_exception(K, file, line, args) ==
    IF trap_mode = 2 \/ inflight # None
    THEN terminated' = TRUE /\ UNCHANGED inflight
    ELSE inflight' = Some(ThrownObject(K, file, line, args)) /\ UNCHANGED terminated

(* --------------------------- THROW and catch --------------------------- *)

\* the inputs of the THROW call sites: kind, __FILE__, __LINE__, arguments
ThrowSites ==
    { <<"runtime_error", "a.cc", 7, <<StrArg("bad")>> >>,
      <<"invalid_argument", "a.cc", 120, <<StrArg("code:"), IntArg(42)>> >>,
      <<"logic_error", "b.hh", 7, <<BoolArg(FALSE), StrArg("end ")>> >>,
      <<"NoStringException", "a.cc", 7, <<StrArg("Ignored")>> >> }

\* THROW(K, args...)
Throw(K, file, line, args) ==
    /\ ~terminated /\ inflight = None /\ nraise < MaxRaises
    /\ throw_exception(K, file, line, args)
    /\ nraise' = nraise + 1
    /\ last' = [op |-> "throw",
                raise |-> Some(RaiseInfo(K, file, line, args, ThrowSteps(file, line, args)))]
    /\ UNCHANGED <<trap_mode, wide_shift, logging, peer, caught, enf, eh, nenf>>

\* do { if (condition) { THROW(K, args...); } } while (0), where written is
\* the condition at the call site of the macro
ConditionalThrow(macro, written, condition, K, file, line, args) ==
    /\ ~terminated /\ inflight = None
    /\ condition => nraise < MaxRaises
    /\ IF condition
       THEN /\ throw_exception(K, file, line, args)
            /\ nraise' = nraise + 1
            /\ last' = [evaluated |-> TRUE,
                        op |-> macro,
                        raise |-> Some(RaiseInfo(K, file, line, args,
                                                 ThrowSteps(file, line, args))), condition |-> written]
       ELSE /\ last' = [evaluated |-> FALSE, op |-> macro, raise |-> None,
                        condition |-> written]
            /\ UNCHANGED <<inflight, terminated, nraise>>
    /\ UNCHANGED <<trap_mode, wide_shift, logging, peer, caught, enf, eh, nenf>>

\* THROW_IF(condition, K, args...)
THROW_IF(condition, K, file, line, args) ==
    ConditionalThrow("throw_if", condition, condition, K, file, line, args)

\* the condition passed on without the negation
THROW_UNLESS_AsIs(condition, K, file, line, args) ==
    ConditionalThrow("throw_unless", condition, condition, K, file, line, args)

\* THROW_UNLESS(condition, K, args...)
THROW_UNLESS(condition, K, file, line, args) ==
    ConditionalThrow("throw_unless", condition, ~condition, K, file, line, args)

\* a throw expression of the caller that raises a value which is not a
\* std::exception (throw 42;)
RawThrow ==
    /\ ~terminated /\ inflight = None /\ nraise < MaxRaises
    /\ nraise' = nraise + 1
    /\ inflight' = Some([kind |-> "int", bases |-> {"int"}, what |-> "", nested |-> None])
    /\ last' = [op |-> "raw_throw"]
    /\ UNCHANGED <<trap_mode, wide_shift, logging, peer, caught, terminated, enf, eh, nenf>>

HandlerTypes == {"...", "exception", "runtime_error", "logic_error", "invalid_argument",
                 "NoStringException"}

Catches(h, e) == h = "..." \/ h \in e.bases

\* the propagating exception reaches a handler of type h of a try block that
\* was entered with d handlers active; the handlers entered since are left
Catch(h, d) ==
    /\ ~terminated /\ inflight # None
    /\ Catches(h, inflight[1])
    /\ d <= Len(caught)
    /\ enf.alive => d >= enf.depth
    /\ caught' = Append(SubSeq(caught, 1, d), inflight[1])
    /\ inflight' = None
    /\ last' = [op |-> "catch"]
    /\ UNCHANGED <<trap_mode, wide_shift, logging, peer, terminated, enf, eh, nraise, nenf>>

\* the innermost active handler runs to its end
EndHandler ==
    /\ ~terminated /\ inflight = None /\ caught # <<>>
    /\ enf.alive => enf.depth < Len(caught)
    /\ caught' = SubSeq(caught, 1, Len(caught) - 1)
    /\ last' = [op |-> "end_handler"]
    /\ UNCHANGED <<trap_mode, wide_shift, logging, peer,
                   inflight, terminated, enf, eh, nraise, nenf>>

\* a trace that starts one level in
Trace_Indented ==
    /\ ~terminated /\ inflight = None /\ caught # <<>>
    /\ "exception" \in caught[Len(caught)].bases
    /\ last' = [text |-> get_nested_trace(caught[Len(caught)], 1),
                e |-> caught[Len(caught)], op |-> "trace"]
    /\ UNCHANGED <<trap_mode, wide_shift, logging, peer,
                   caught, inflight, terminated, enf, eh, nraise, nenf>>

\* a handler calls get_nested_trace(e) on the exception it caught
Trace ==
    /\ ~terminated /\ inflight = None /\ caught # <<>>
    /\ "exception" \in caught[Len(caught)].bases
    /\ last' = [text |-> get_nested_trace(caught[Len(caught)], 0),
                e |-> caught[Len(caught)], op |-> "trace"]
    /\ UNCHANGED <<trap_mode, wide_shift, logging, peer,
                   caught, inflight, terminated, enf, eh, nraise, nenf>>

\* THROW(K, args...) in the second thread: throw_exception there sees the
\* exception that thread is handling
PeerThrow(K, file, line, args) ==
    /\ ~terminated /\ peer.inflight = None /\ nraise < MaxRaises
    /\ LET message == build_message(args)
           obj == NewException(K, append_location(file, line) \o " " \o message)
       IN  peer' = [peer EXCEPT !.inflight =
                       Some(IF peer_current_exception # None
                            THEN throw_with_nested(obj, peer_current_exception[1])
                            ELSE obj)]
    /\ nraise' = nraise + 1
    /\ last' = [op |-> "peer_throw"]
    /\ UNCHANGED <<trap_mode, wide_shift, logging, caught, inflight, terminated, enf, eh, nenf>>

\* the exception propagating in the second thread reaches a handler of type
\* h of a try block that was entered with d handlers active
PeerCatch(h, d) ==
    /\ ~terminated /\ peer.inflight # None
    /\ Catches(h, peer.inflight[1])
    /\ d <= Len(peer.caught)
    /\ peer' = [caught |-> Append(SubSeq(peer.caught, 1, d), peer.inflight[1]),
                inflight |-> None]
    /\ last' = [op |-> "peer_catch"]
    /\ UNCHANGED <<trap_mode, wide_shift, logging, raising>>

\* the innermost active handler of the second thread runs to its end
PeerEndHandler ==
    /\ ~terminated /\ peer.inflight = None /\ peer.caught # <<>>
    /\ peer' = [peer EXCEPT !.caught = SubSeq(@, 1, Len(@) - 1)]
    /\ last' = [op |-> "peer_end_handler"]
    /\ UNCHANGED <<trap_mode, wide_shift, logging, raising>>

(* ------------------------------ enforcer ------------------------------- *)

check_Exclusive(pred, value) ==
    CASE pred.p = "truth" -> value # 0
      [] pred.p = "equal_to" -> value = pred.a
      [] pred.p = "not_equal_to" -> value # pred.a
      [] pred.p = "less_than" -> value < pred.a
      [] pred.p = "greater_than" -> value > pred.a
      [] pred.p = "in_range" -> value > pred.a /\ value < pred.b

\* Predicate::check(value)
check(pred, value) ==
    CASE pred.p = "truth" -> value # 0
      [] pred.p = "equal_to" -> value = pred.a
      [] pred.p = "not_equal_to" -> value # pred.a
      [] pred.p = "less_than" -> value < pred.a
      [] pred.p = "greater_than" -> value > pred.a
      [] pred.p = "in_range" -> value >= pred.a /\ value <= pred.b

\* Predicate::description()
description(pred) ==
    CASE pred.p = "truth" -> "Expression must be true"
      [] pred.p = "equal_to" -> "Values must be equal"
      [] pred.p = "not_equal_to" -> "Values must not be equal"
      [] pred.p = "less_than" -> "Value must be less than bound"
      [] pred.p = "greater_than" -> "Value must be greater than bound"
      [] pred.p = "in_range" -> "Value must be in range"

truth == [b |-> 0, a |-> 0, p |-> "truth"]
equal_to(expected) == [b |-> 0, a |-> expected, p |-> "equal_to"]
not_equal_to(expected) == [b |-> 0, a |-> expected, p |-> "not_equal_to"]
less_than(bound) == [b |-> 0, a |-> bound, p |-> "less_than"]
greater_than(bound) == [b |-> 0, a |-> bound, p |-> "greater_than"]
in_range(lower, upper) == [b |-> upper, a |-> lower, p |-> "in_range"]

\* the exception class a raiser policy throws; trap_raiser throws none
RaiserKind(raiser) ==
    IF raiser = "default_raiser" THEN FAILSAFE_DEFAULT_EXCEPTION ELSE raiser

\* a trap raiser that comes back from the trap
RaiserRaise_TrapReturns(raiser, file, line, args) ==
    IF raiser = "trap_raiser"
    THEN UNCHANGED <<inflight, terminated>>
    ELSE throw_exception(RaiserKind(raiser), file, line, args)

\* Raiser::raise(file, line, args...)
RaiserRaise(raiser, file, line, args) ==
    IF raiser = "trap_raiser"
    THEN terminated' = TRUE /\ UNCHANGED inflight
    ELSE throw_exception(RaiserKind(raiser), file, line, args)

RaiserSteps(raiser, file, line, args) ==
    IF raiser = "trap_raiser"
    THEN <<[text |-> print_exception_info(file, line, build_message(args)),
            step |-> "print"],
           [text |-> "", step |-> "trap"],
           [text |-> "", step |-> "terminate"]>>
    ELSE ThrowSteps(file, line, args)

RaiserInfo(raiser, file, line, args) ==
    RaiseInfo(RaiserKind(raiser), file, line, args, RaiserSteps(raiser, file, line, args))

Construct_Inverted(value, passed, pred, expr, file, line, raiser) ==
    /\ ~terminated /\ inflight = None /\ ~enf.alive
    /\ nenf < MaxEnforcers
    /\ nenf' = nenf + 1
    /\ enf' = [alive |-> TRUE, value_ |-> value, predicate_ |-> pred, expr_ |-> expr,
               file_ |-> file, line_ |-> line, failed_ |-> passed, handled_ |-> FALSE,
               raiser |-> raiser, depth |-> Len(caught)]
    /\ eh' = [checked |-> value, written |-> FALSE, calls |-> 0, raises |-> 0]
    /\ UNCHANGED <<trap_mode, wide_shift, logging, peer, caught, inflight, terminated, nraise>>

\* enforcer::enforcer(value, passed, pred, expr, file, line)
Construct(value, passed, pred, expr, file, line, raiser) ==
    /\ ~terminated /\ inflight = None /\ ~enf.alive
    /\ nenf < MaxEnforcers
    /\ nenf' = nenf + 1
    /\ enf' = [alive |-> TRUE, value_ |-> value, predicate_ |-> pred, expr_ |-> expr,
               file_ |-> file, line_ |-> line, failed_ |-> ~passed, handled_ |-> FALSE,
               raiser |-> raiser, depth |-> Len(caught)]
    /\ eh' = [checked |-> value, written |-> FALSE, calls |-> 0, raises |-> 0]
    /\ UNCHANGED <<trap_mode, wide_shift, logging, peer, caught, inflight, terminated, nraise>>

\* ENFORCE(expr)
make_enforcer(value, expr, file, line) ==
    LET passed == check(truth, value)
    IN  /\ Construct(value, passed, truth, expr, file, line, "default_raiser")
        /\ last' = [value |-> value, op |-> "make_enforcer"]

\* ENFORCE_THROW(expr, Exception)
make_enforcer_throw(Exception, value, expr, file, line) ==
    LET passed == check(truth, value)
    IN  /\ Construct(value, passed, truth, expr, file, line, Exception)
        /\ last' = [value |-> value, op |-> "make_enforcer_throw"]

\* ENFORCE_TRAP(expr)
make_enforcer_trap(value, expr, file, line) ==
    LET passed == check(truth, value)
    IN  /\ Construct(value, passed, truth, expr, file, line, "trap_raiser")
        /\ last' = [value |-> value, op |-> "make_enforcer_trap"]

\* ENFORCE_EQ(value, expected)
enforce_eq(value, expected, expr, file, line) ==
    LET pred == equal_to(expected)
        passed == check(pred, value)
    IN  /\ Construct(value, passed, pred, expr, file, line, "default_raiser")
        /\ last' = [b |-> 0, value |-> value, a |-> expected, op |-> "enforce_eq"]

\* ENFORCE_NE(value, expected)
enforce_ne(value, expected, expr, file, line) ==
    LET pred == not_equal_to(expected)
        passed == check(pred, value)
    IN  /\ Construct(value, passed, pred, expr, file, line, "default_raiser")
        /\ last' = [b |-> 0, value |-> value, a |-> expected, op |-> "enforce_ne"]

\* ENFORCE_LT(value, bound)
enforce_lt(value, bound, expr, file, line) ==
    LET pred == less_than(bound)
        passed == check(pred, value)
    IN  /\ Construct(value, passed, pred, expr, file, line, "default_raiser")
        /\ last' = [b |-> 0, value |-> value, a |-> bound, op |-> "enforce_lt"]

\* ENFORCE_GT(value, bound)
enforce_gt(value, bound, expr, file, line) ==
    LET pred == greater_than(bound)
        passed == check(pred, value)
    IN  /\ Construct(value, passed, pred, expr, file, line, "default_raiser")
        /\ last' = [b |-> 0, value |-> value, a |-> bound, op |-> "enforce_gt"]

\* ENFORCE_IN_RANGE(value, lower, upper)
enforce_in_range(value, lower, upper, expr, file, line) ==
    LET pred == in_range(lower, upper)
        passed == check(pred, value)
    IN  /\ Construct(value, passed, pred, expr, file, line, "default_raiser")
        /\ last' = [b |-> upper, value |-> value, a |-> lower, op |-> "enforce_in_range"]

\* operator() deciding on the value held now instead of the stored outcome
Call_Recheck(args) ==
    LET failed == ~check(enf.predicate_, enf.value_)
    IN  /\ ~terminated /\ inflight = None /\ enf.alive
        /\ eh.calls < MaxCalls
        /\ failed => nraise < MaxRaises
        /\ IF failed
           THEN /\ enf' = [enf EXCEPT !.handled_ = TRUE]
                /\ nraise' = nraise + 1
                /\ RaiserRaise(enf.raiser, enf.file_, enf.line_, args)
                /\ eh' = [eh EXCEPT !.calls = @ + 1, !.raises = @ + 1]
                /\ last' = [args |-> args, op |-> "call",
                            raise |-> Some(RaiserInfo(enf.raiser, enf.file_,
                                                      enf.line_, args))]
           ELSE /\ eh' = [eh EXCEPT !.calls = @ + 1]
                /\ last' = [args |-> args, op |-> "call", raise |-> None]
                /\ UNCHANGED <<enf, inflight, terminated, nraise>>
        /\ UNCHANGED <<trap_mode, wide_shift, logging, peer, caught, nenf>>

\* enforcer::operator()(args...)
Call(args) ==
    /\ ~terminated /\ inflight = None /\ enf.alive
    /\ eh.calls < MaxCalls
    /\ enf.failed_ => nraise < MaxRaises
    /\ IF enf.failed_
       THEN /\ enf' = [enf EXCEPT !.handled_ = TRUE]
            /\ nraise' = nraise + 1
            /\ RaiserRaise(enf.raiser, enf.file_, enf.line_, args)
            /\ eh' = [eh EXCEPT !.calls = @ + 1, !.raises = @ + 1]
            /\ last' = [args |-> args, op |-> "call",
                        raise |-> Some(RaiserInfo(enf.raiser, enf.file_, enf.line_, args))]
       ELSE /\ eh' = [eh EXCEPT !.calls = @ + 1]
            /\ last' = [args |-> args, op |-> "call", raise |-> None]
            /\ UNCHANGED <<enf, inflight, terminated, nraise>>
    /\ UNCHANGED <<trap_mode, wide_shift, logging, peer, caught, nenf>>

DefaultArgs_NoDescription(e) ==
    <<StrArg("Enforcement failed: "), PtrArg(e.expr_)>>

\* the arguments of the default message of ~enforcer
DefaultArgs(e) ==
    <<StrArg("Enforcement failed: "), PtrArg(e.expr_), StrArg(" - "),
      PtrArg(description(e.predicate_))>>

\* a destructor that does not look at handled_
Destroy_Unguarded ==
    /\ ~terminated /\ enf.alive
    /\ enf.failed_ => nraise < MaxRaises
    /\ IF enf.failed_
       THEN /\ RaiserRaise(enf.raiser, enf.file_, enf.line_, DefaultArgs(enf))
            /\ nraise' = nraise + 1
            /\ last' = [e |-> enf, raises |-> eh.raises + 1, op |-> "destroy",
                        raise |-> Some(RaiserInfo(enf.raiser, enf.file_, enf.line_,
                                                  DefaultArgs(enf))),
                        h |-> eh]
       ELSE /\ last' = [e |-> enf, raises |-> eh.raises, op |-> "destroy",
                        raise |-> None, h |-> eh]
            /\ UNCHANGED <<inflight, terminated, nraise>>
    /\ enf' = NoEnforcer
    /\ eh' = NoHistory
    /\ UNCHANGED <<trap_mode, wide_shift, logging, peer, caught, nenf>>

\* enforcer::~enforcer(), at the end of the scope or while the stack is
\* unwound by a propagating exception
Destroy ==
    /\ ~terminated /\ enf.alive
    /\ (enf.failed_ /\ ~enf.handled_) => nraise < MaxRaises
    /\ IF enf.failed_ /\ ~enf.handled_
       THEN /\ RaiserRaise(enf.raiser, enf.file_, enf.line_, DefaultArgs(enf))
            /\ nraise' = nraise + 1
            /\ last' = [e |-> enf, raises |-> eh.raises + 1, op |-> "destroy",
                        raise |-> Some(RaiserInfo(enf.raiser, enf.file_, enf.line_,
                                                  DefaultArgs(enf))),
                        h |-> eh]
       ELSE /\ last' = [e |-> enf, raises |-> eh.raises, op |-> "destroy",
                        raise |-> None, h |-> eh]
            /\ UNCHANGED <<inflight, terminated, nraise>>
    /\ enf' = NoEnforcer
    /\ eh' = NoHistory
    /\ UNCHANGED <<trap_mode, wide_shift, logging, peer, caught, nenf>>

\* enforcer::operator T() const
Convert ==
    /\ ~terminated /\ inflight = None /\ enf.alive
    /\ last' = [op |-> "convert", got |-> enf.value_]
    /\ UNCHANGED <<trap_mode, wide_shift, logging, peer,
                   caught, inflight, terminated, enf, eh, nraise, nenf>>

\* enforcer::get() const
Get ==
    /\ ~terminated /\ inflight = None /\ enf.alive
    /\ last' = [op |-> "get", got |-> enf.value_]
    /\ UNCHANGED <<trap_mode, wide_shift, logging, peer,
                   caught, inflight, terminated, enf, eh, nraise, nenf>>

\* an assignment through the reference returned by enforcer::get()
GetAssign(v) ==
    /\ ~terminated /\ inflight = None /\ enf.alive
    /\ enf' = [enf EXCEPT !.value_ = v]
    /\ eh' = [eh EXCEPT !.written = TRUE]
    /\ last' = [op |-> "get_assign"]
    /\ UNCHANGED <<trap_mode, wide_shift, logging, peer,
                   caught, inflight, terminated, nraise, nenf>>

(* ------------------------------- logger -------------------------------- *)

\* a check of the level that ignores the switch
is_level_enabled_IgnoresEnabled(level) == level >= config.min_level

\* is_level_enabled(level)
is_level_enabled(level) == config.enabled /\ level >= config.min_level

\* set_min_level(level) in thread t
set_min_level(t, level) ==
    /\ threads[t].pc = "idle" /\ config.stores < MaxStores
    /\ config' = [config EXCEPT !.min_level = level, !.stores = @ + 1]
    /\ last' = [op |-> "set_min_level", thread |-> t]
    /\ UNCHANGED <<trap_mode, wide_shift, raising, threads, sink, peer>>

\* set_enabled(enabled) in thread t
set_enabled(t, enabled) ==
    /\ threads[t].pc = "idle" /\ config.stores < MaxStores
    /\ config' = [config EXCEPT !.enabled = enabled, !.stores = @ + 1]
    /\ last' = [op |-> "set_enabled", thread |-> t]
    /\ UNCHANGED <<trap_mode, wide_shift, raising, threads, sink, peer>>

\* thread t enters a function that assigns get_config().backend: from here
\* to the end of the assignment the function object is being written, and
\* an invocation that is running on it races with the write
AssignBackend(t, backend) ==
    /\ threads[t].pc = "idle" /\ Len(config.installs) < MaxInstalls
    /\ threads' = [u \in Threads |->
                      IF u = t
                      THEN [threads[u] EXCEPT !.pc = "assign", !.incoming = backend]
                      ELSE IF threads[u].pc = "invoke"
                      THEN [threads[u] EXCEPT !.call.raced = Some(backend)]
                      ELSE threads[u]]
    /\ UNCHANGED <<trap_mode, wide_shift, raising, config, sink, last, peer>>

\* set_backend(backend) in thread t, up to the assignment
set_backend(t, backend) == AssignBackend(t, backend)

\* reset_backend() in thread t, up to the assignment
reset_backend(t) == AssignBackend(t, default_cerr_backend)

\* an assignment that stores a null backend as it is
StoreBackend_Null(t) ==
    /\ threads[t].pc = "assign"
    /\ config' = [config EXCEPT !.backend = threads[t].incoming,
                                !.installs = Append(@, threads[t].incoming)]
    /\ threads' = [threads EXCEPT ![t] = [@ EXCEPT !.pc = "idle", !.incoming = ""]]
    /\ last' = [op |-> "set_backend", thread |-> t]
    /\ UNCHANGED <<trap_mode, wide_shift, raising, sink, peer>>

\* the assignment of set_backend and reset_backend completes: a null backend
\* is replaced by the default one
StoreBackend(t) ==
    /\ threads[t].pc = "assign"
    /\ config' = [config EXCEPT
                     !.backend = IF threads[t].incoming # NullBackend
                                 THEN threads[t].incoming ELSE default_cerr_backend,
                     !.installs = Append(@, threads[t].incoming)]
    /\ threads' = [threads EXCEPT ![t] = [@ EXCEPT !.pc = "idle", !.incoming = ""]]
    /\ last' = [op |-> "set_backend", thread |-> t]
    /\ UNCHANGED <<trap_mode, wide_shift, raising, sink, peer>>

\* what a finished log call leaves in last
LogDone(t, call) ==
    [call |-> call, op |-> "log", thread |-> t, seq |-> threads[t].calls]

\* LOG_<LEVEL>(args...) or LOG_CAT_<LEVEL>(category, args...) in thread t:
\* the macro is empty below LOGGER_MIN_LEVEL; otherwise it tests the runtime
\* minimum level and only then evaluates the arguments for log_with_level
LOG(t, macro, level, category, file, line, args) ==
    /\ threads[t].pc = "idle" /\ threads[t].calls < MaxLogs
    /\ LET call == [NoCall EXCEPT !.macro = macro, !.level = level,
                                  !.category = category, !.file = file,
                                  !.line = line, !.args = args]
       IN  IF LOGGER_MIN_LEVEL > level \/ config.min_level > level
           THEN /\ threads' = [threads EXCEPT ![t].calls = @ + 1]
                /\ last' = [call |-> call, op |-> "log",
                            thread |-> t, seq |-> threads[t].calls + 1]
           ELSE /\ threads' = [threads EXCEPT ![t] =
                                  [@ EXCEPT !.pc = "log_impl", !.calls = @ + 1,
                                            !.call = [call EXCEPT !.evaluated = TRUE]]]
                /\ UNCHANGED last
    /\ UNCHANGED <<trap_mode, wide_shift, raising, config, sink, peer>>

\* LOG_RUNTIME(level, args...) or LOG_CAT_RUNTIME(level, category, args...) in
\* thread t: a plain call of log(), whose arguments are evaluated
LOG_RUNTIME(t, level, category, file, line, args) ==
    /\ threads[t].pc = "idle" /\ threads[t].calls < MaxLogs
    /\ threads' = [threads EXCEPT ![t] =
                      [@ EXCEPT !.pc = "log_impl", !.calls = @ + 1,
                                !.call = [NoCall EXCEPT
                                             !.macro = "LOG_RUNTIME", !.level = level,
                                             !.category = category, !.file = file,
                                             !.line = line, !.args = args,
                                             !.evaluated = TRUE]]]
    /\ UNCHANGED <<trap_mode, wide_shift, raising, config, sink, last, peer>>

\* internal::log_impl up to the message: the runtime check, then build_message
log_impl(t) ==
    /\ threads[t].pc = "log_impl"
    /\ IF ~is_level_enabled(threads[t].call.level)
       THEN /\ threads' = [threads EXCEPT ![t] = [@ EXCEPT !.pc = "idle", !.call = NoCall]]
            /\ last' = LogDone(t, threads[t].call)
       ELSE /\ threads' = [threads EXCEPT ![t] =
                              [@ EXCEPT !.pc = "backend",
                                        !.call.message = build_message(threads[t].call.args)]]
            /\ UNCHANGED last
    /\ UNCHANGED <<trap_mode, wide_shift, raising, config, sink, peer>>

\* the backends whose assignment is in progress in a thread other than t
Assigning(t) == { threads[u].incoming : u \in { v \in Threads \ {t} : threads[v].pc = "assign" } }

\* get_config().backend(level, category, file, line, message) begins: the
\* function object is read without synchronisation, which races with an
\* assignment in progress
Invoke(t) ==
    /\ threads[t].pc = "backend"
    /\ \E raced \in (IF Assigning(t) = {} THEN {None}
                     ELSE { Some(b) : b \in Assigning(t) }) :
          threads' = [threads EXCEPT ![t] =
                         [@ EXCEPT !.pc = "invoke", !.call.target = config.backend,
                                   !.call.raced = raced]]
    /\ UNCHANGED <<trap_mode, wide_shift, raising, config, sink, last, peer>>

\* the backends an invocation can have run: the one that was read, or after a
\* race the one being assigned or no backend in full
Invoked(call) ==
    IF call.raced = None THEN {call.target}
    ELSE {call.target,
          IF call.raced[1] # NullBackend THEN call.raced[1] ELSE default_cerr_backend,
          TornBackend}

\* an invocation that reaches the backend twice
Return_Twice(t) ==
    /\ threads[t].pc = "invoke"
    /\ \E b \in Invoked(threads[t].call) :
          LET call == threads[t].call
              entry == [file |-> call.file, line |-> call.line, message |-> call.message,
                        backend |-> b, level |-> call.level,
                        category |-> call.category, thread |-> t,
                        seq |-> threads[t].calls]
          IN  sink' = sink \o <<entry, entry>>
    /\ threads' = [threads EXCEPT ![t] = [@ EXCEPT !.pc = "idle", !.call = NoCall]]
    /\ last' = LogDone(t, threads[t].call)
    /\ UNCHANGED <<trap_mode, wide_shift, raising, config, peer>>

\* the backend returns and log_impl with it
Return(t) ==
    /\ threads[t].pc = "invoke"
    /\ \E b \in Invoked(threads[t].call) :
          LET call == threads[t].call
              entry == [file |-> call.file, line |-> call.line, message |-> call.message,
                        backend |-> b, level |-> call.level,
                        category |-> call.category, thread |-> t,
                        seq |-> threads[t].calls]
          IN  sink' = Append(sink, entry)
    /\ threads' = [threads EXCEPT ![t] = [@ EXCEPT !.pc = "idle", !.call = NoCall]]
    /\ last' = LogDone(t, threads[t].call)
    /\ UNCHANGED <<trap_mode, wide_shift, raising, config, peer>>

(* ------------------------------- inputs -------------------------------- *)

\* values checked by the truth predicate (0 is false or a null pointer)
TruthValues == {0, 5}

\* argument lists of message calls
CallArgs == { <<>>, <<StrArg("n ="), IntArg(-3)>> }

(* Failures raised by THROW, by throw and by enforcers, caught by handlers *)
(* nested in handlers, and flattened by get_nested_trace.                   *)
Next ==
    \/ \E site \in ThrowSites : Throw(site[1], site[2], site[3], site[4])
    \/ RawThrow
    \/ \E h \in HandlerTypes, d \in 0..MaxRaises : Catch(h, d)
    \/ EndHandler
    \/ Trace
    \/ make_enforcer(0, "ptr", "e.cc", 33)
    \/ make_enforcer_throw("logic_error", 0, "x > 0", "e.cc", 45)
    \/ Call(<<StrArg("Logic error")>>)
    \/ Destroy

Spec == Init /\ [][Next]_vars

(* The life of an enforcer: construction by each factory, message calls,   *)
(* reads and writes of the held value, destruction at scope exit or during *)
(* unwinding, with callers that catch its failure and go on using it.      *)
NextEnf ==
    \/ Throw("runtime_error", "a.cc", 7, <<StrArg("bad")>>)
    \/ \E h \in HandlerTypes, d \in 0..MaxRaises : Catch(h, d)
    \/ EndHandler
    \/ \E v \in TruthValues : make_enforcer(v, "ptr", "e.cc", 33)
    \/ \E v \in TruthValues : make_enforcer_throw("logic_error", v, "x > 0", "e.cc", 45)
    \/ \E v \in TruthValues : make_enforcer_trap(v, "is_open", "e.cc", 9)
    \/ \E e \in {5, 6} : enforce_eq(5, e, "x == " \o IntToStr(e), "e.cc", 81)
    \/ \E args \in CallArgs : Call(args)
    \/ Destroy
    \/ Convert
    \/ Get
    \/ \E v \in TruthValues : GetAssign(v)

SpecEnf == Init /\ [][NextEnf]_vars

\* largest magnitude of the values and bounds compared
MaxValue == 2
CmpValues == (0 - MaxValue)..MaxValue

(* The comparison enforcements over every small value and bound, each      *)
(* enforcer then used with or without a message call and destroyed.        *)
NextCmp ==
    \/ \E v \in CmpValues, e \in CmpValues : enforce_eq(v, e, "x == e", "e.cc", 81)
    \/ \E v \in CmpValues, e \in CmpValues : enforce_ne(v, e, "x != e", "e.cc", 94)
    \/ \E v \in CmpValues, b \in CmpValues : enforce_lt(v, b, "x < b", "e.cc", 100)
    \/ \E v \in CmpValues, b \in CmpValues : enforce_gt(v, b, "x > b", "e.cc", 107)
    \/ \E v \in CmpValues, lo \in CmpValues, hi \in CmpValues :
            enforce_in_range(v, lo, hi, "x in [lo, hi]", "e.cc", 123)
    \/ Call(<<StrArg("Values don't match")>>)
    \/ Destroy

SpecCmp == Init /\ [][NextCmp]_vars

(* Conditional raises whose conditions hold or not, in and outside         *)
(* handlers.                                                               *)
NextCond ==
    \/ \E c \in BOOLEAN :
            THROW_IF(c, "runtime_error", "c.cc", 101, <<StrArg("Condition was true")>>)
    \/ \E c \in BOOLEAN :
            THROW_UNLESS(c, "invalid_argument", "c.cc", 126,
                         <<StrArg("Validation failed:"), IntArg(5)>>)
    \/ \E h \in HandlerTypes, d \in 0..MaxRaises : Catch(h, d)
    \/ EndHandler

SpecCond == Init /\ [][NextCond]_vars

\* the values of FAILSAFE_TRAP_MODE: normal, trap then throw, trap only
TrapModes == {0, 1, 2}

\* builds with each trap mode
InitTrap ==
    /\ trap_mode \in TrapModes
    /\ wide_shift \in ShiftOutcomes
    /\ caught = <<>>
    /\ inflight = None
    /\ terminated = FALSE
    /\ enf = NoEnforcer
    /\ eh = NoHistory
    /\ last = [op |-> "init"]
    /\ nraise = 0
    /\ nenf = 0
    /\ config = NewConfig
    /\ threads = [t \in Threads |-> IdleThread]
    /\ sink = <<>>
    /\ peer = NoPeer

(* Raises by THROW and by enforcers of each raiser policy, in builds of     *)
(* each trap mode.                                                         *)
NextTrap ==
    \/ Throw("runtime_error", "t.cc", 101, <<StrArg("Test message")>>)
    \/ \E h \in HandlerTypes, d \in 0..MaxRaises : Catch(h, d)
    \/ EndHandler
    \/ make_enforcer(0, "ptr", "e.cc", 33)
    \/ make_enforcer_throw("logic_error", 0, "x > 0", "e.cc", 45)
    \/ make_enforcer_trap(0, "is_open", "e.cc", 9)
    \/ Call(<<StrArg("n ="), IntArg(-3)>>)
    \/ Destroy

SpecTrap == InitTrap /\ [][NextTrap]_vars

(* Two threads raise and handle failures, each in its own handlers.        *)
NextThreads ==
    \/ \E site \in ThrowSites : Throw(site[1], site[2], site[3], site[4])
    \/ \E h \in {"...", "exception"}, d \in 0..MaxRaises : Catch(h, d)
    \/ EndHandler
    \/ \E site \in ThrowSites : PeerThrow(site[1], site[2], site[3], site[4])
    \/ \E h \in {"...", "exception"}, d \in 0..MaxRaises : PeerCatch(h, d)
    \/ PeerEndHandler

SpecThreads == Init /\ [][NextThreads]_vars

(* Message calls on passed and failed enforcers of each raiser policy, in  *)
(* builds of each trap mode.                                               *)
NextRaisers ==
    \/ \E v \in TruthValues : make_enforcer(v, "ptr", "e.cc", 33)
    \/ \E v \in TruthValues : make_enforcer_throw("logic_error", v, "x > 0", "e.cc", 45)
    \/ \E v \in TruthValues : make_enforcer_trap(v, "is_open", "e.cc", 9)
    \/ \E args \in CallArgs : Call(args)
    \/ \E h \in HandlerTypes, d \in 0..MaxRaises : Catch(h, d)
    \/ EndHandler
    \/ Destroy

SpecRaisers == InitTrap /\ [][NextRaisers]_vars

(* ------------------------------ rendering ------------------------------ *)

\* the text each argument of a message adds to the stream of build_message,
\* which the arguments before it have already been written to
RECURSIVE StreamPieces(_, _)
StreamPieces(oss, args) ==
    IF args = <<>> THEN <<>>
    ELSE LET after == append_to_stream(oss, Head(args))
         IN  <<SubSeq(after.buf, Len(oss.buf) + 1, Len(after.buf))>>
                 \o StreamPieces(Put(after, " "), Tail(args))

\* a call build_message(args...); the stream is local to the call, so one
\* call has no effect on the next and a run makes one
BuildMessage(args) ==
    /\ last.op = "init"
    /\ last' = [args |-> args, text |-> build_message(args), op |-> "build_message",
                pieces |-> StreamPieces(NewStream, args)]
    /\ UNCHANGED <<trap_mode, wide_shift, logging, peer,
                   caught, inflight, terminated, enf, eh, nraise, nenf>>

\* most arguments of one message
MaxArgs == 2
\* largest field width of a hex or oct formatter
MaxHexWidth == 8
\* largest field width of a bin formatter
MaxBinWidth == 33
\* most elements of a container
MaxItems == 3

\* plain arguments: texts that are empty or end in a space, numbers, bools, a
\* null const char*
PlainValues ==
    { StrArg(""), StrArg("a"), StrArg("end "), StrArg(" "), IntArg(42), IntArg(-3),
      BoolArg(TRUE), PtrArg(NULL) }

\* the sequences of at most n elements of S
RECURSIVE SeqsUpTo(_, _)
SeqsUpTo(S, n) ==
    IF n = 0 THEN { <<>> }
    ELSE LET shorter == SeqsUpTo(S, n - 1)
         IN  shorter \cup { Append(q, x) : q \in { r \in shorter : Len(r) = n - 1 }, x \in S }

\* the values given to hex(): ints, shorts, pointers to objects
HexValues ==
    { IntArg(0), IntArg(15), IntArg(255), ShortArg(-1), ObjPtrArg(0), ObjPtrArg(42) }

\* the values given to oct() and bin()
BinValues == { IntArg(0), IntArg(1), IntArg(5), IntArg(175), ShortArg(-1), ShortArg(5) }

\* the elements 1..n of a std::vector<int>
RECURSIVE Iota(_)
Iota(n) == IF n = 0 THEN <<>> ELSE Append(Iota(n - 1), IntArg(n))

\* container(vec, [](auto& f) { ... }) setting the texts of the format
CustomTexts(fmt) ==
    [fmt EXCEPT !.prefix = "{", !.suffix = "}", !.delimiter = "; ",
                !.ellipsis = "and more"]

\* formatted and plain arguments mixed in one message
MixedValues ==
    { IntArg(42), StrArg("a"), BoolArg(TRUE),
      hex(IntArg(255), 4, TRUE, TRUE), hex(ObjPtrArg(0), 0, TRUE, FALSE),
      oct(IntArg(8), 4, TRUE), bin(IntArg(5), 8, TRUE, 4),
      container(Iota(3), 2), VectorArg(Iota(2)) }

(* Messages built from plain and formatted arguments.                      *)
NextRender ==
    \/ \E args \in SeqsUpTo(PlainValues, MaxArgs + 1) : BuildMessage(args)
    \/ \E args \in SeqsUpTo(MixedValues, MaxArgs + 1) : BuildMessage(args)
    \/ \E value \in HexValues, width \in 0..MaxHexWidth, show_base \in BOOLEAN,
          uppercase \in BOOLEAN :
            BuildMessage(<<hex(value, width, show_base, uppercase)>>)
    \/ \E value \in BinValues, width \in 0..MaxHexWidth, show_base \in BOOLEAN :
            BuildMessage(<<oct(value, width, show_base)>>)
    \/ \E value \in BinValues, width \in 0..MaxBinWidth, show_base \in BOOLEAN,
          group_size \in {0, 2, 3, 4} :
            BuildMessage(<<bin(value, width, show_base, group_size)>>)
    \/ \E n \in 0..MaxItems, max_items \in 0..(MaxItems + 1) :
            BuildMessage(<<container(Iota(n), max_items)>>)
    \/ \E n \in 0..MaxItems, max_items \in 0..(MaxItems + 1),
          start_index \in 0..(MaxItems + 1), custom \in BOOLEAN,
          show_indices \in BOOLEAN, multiline \in BOOLEAN :
            LET fmt == [container_format(Iota(n)) EXCEPT
                            !.max_items = max_items, !.start_index = start_index,
                            !.show_indices = show_indices, !.multiline = multiline]
            IN  BuildMessage(<<IF custom THEN CustomTexts(fmt) ELSE fmt>>)

SpecRender == Init /\ [][NextRender]_vars

\* append_to_stream(oss, value) called by the caller on a stream of its own,
\* which holds what the earlier appends left in it
AppendToStream(value) ==
    /\ last.op \in {"init", "append_to_stream"}
    /\ last.op = "append_to_stream" => last.n < MaxAppends
    /\ LET oss == IF last.op = "init" THEN NewStream ELSE last.after
       IN  last' = [n |-> IF last.op = "init" THEN 1 ELSE last.n + 1, value |-> value, op |-> "append_to_stream",
                    after |-> append_to_stream(oss, value),
                    before |-> oss]
    /\ UNCHANGED <<trap_mode, wide_shift, logging, peer, raising>>

(* Formatters and plain values appended to one stream one after another.   *)
NextStream ==
    \/ \E value \in {IntArg(0), IntArg(255), ObjPtrArg(0)}, width \in 0..MaxHexWidth,
          show_base \in BOOLEAN, uppercase \in BOOLEAN :
            AppendToStream(hex(value, width, show_base, uppercase))
    \/ \E value \in {IntArg(0), IntArg(8)}, width \in 0..MaxHexWidth,
          show_base \in BOOLEAN :
            AppendToStream(oct(value, width, show_base))
    \/ \E value \in {IntArg(5), ShortArg(-1)}, width \in {0, MaxHexWidth},
          show_base \in BOOLEAN, group_size \in {0, 4} :
            AppendToStream(bin(value, width, show_base, group_size))
    \/ \E value \in {IntArg(42), StrArg(" ")} : AppendToStream(value)

SpecStream == Init /\ [][NextStream]_vars

(* ---------------------------- logger inputs ---------------------------- *)

\* the levels set_min_level is given
LogLevels == LOGGER_LEVEL_TRACE..LOGGER_LEVEL_FATAL

\* the levels of the log calls
CallLevels == {LOGGER_LEVEL_DEBUG, LOGGER_LEVEL_INFO, LOGGER_LEVEL_ERROR}

\* the arguments of the log calls
LogArgs == { <<StrArg("ready")>>, <<StrArg("n="), IntArg(42)>> }

\* the log calls of thread t: LOG_<LEVEL>, LOG_CAT_<LEVEL>, LOG_RUNTIME
LogCalls(t) ==
    \/ \E level \in CallLevels, args \in LogArgs :
          LOG(t, "LOG", level, LOGGER_DEFAULT_CATEGORY_STR, "main.cc", 10, args)
    \/ \E level \in CallLevels, args \in LogArgs :
          LOG(t, "LOG_CAT", level, "Net", "net.cc", 20, args)
    \/ \E level \in CallLevels, args \in LogArgs :
          LOG_RUNTIME(t, level, LOGGER_DEFAULT_CATEGORY_STR, "main.cc", 30, args)

(* One thread changes the level and the switch and logs.                   *)
NextLog ==
    \/ \E level \in LogLevels : set_min_level(1, level)
    \/ \E enabled \in BOOLEAN : set_enabled(1, enabled)
    \/ LogCalls(1)
    \/ log_impl(1)
    \/ Invoke(1)
    \/ Return(1)

SpecLog == Init /\ [][NextLog]_vars

(* Several threads log at the same time; the configuration stays as it is. *)
NextLogMT ==
    \/ \E t \in Threads, level \in {LOGGER_LEVEL_INFO, LOGGER_LEVEL_ERROR} :
          LOG(t, "LOG", level, LOGGER_DEFAULT_CATEGORY_STR, "test_logger.cc", 376,
              <<StrArg("Thread"), IntArg(t)>>)
    \/ \E t \in Threads : log_impl(t)
    \/ \E t \in Threads : Invoke(t)
    \/ \E t \in Threads : Return(t)

SpecLogMT == Init /\ [][NextLogMT]_vars

\* the backends given to set_backend: two custom ones and a null one
Backends == {"original_backend", "new_backend", NullBackend}

(* One thread installs backends and logs.                                  *)
NextBackend ==
    \/ \E backend \in Backends : set_backend(1, backend)
    \/ reset_backend(1)
    \/ StoreBackend(1)
    \/ \E level \in {LOGGER_LEVEL_INFO} :
          LOG(1, "LOG", level, LOGGER_DEFAULT_CATEGORY_STR, "test_logger.cc", 321,
              <<StrArg("Message to new backend")>>)
    \/ log_impl(1)
    \/ Invoke(1)
    \/ Return(1)

SpecBackend == Init /\ [][NextBackend]_vars

(* One thread logs while another one installs backends.                    *)
NextLogRace ==
    \/ \E level \in {LOGGER_LEVEL_INFO, LOGGER_LEVEL_ERROR} :
          LOG(1, "LOG", level, LOGGER_DEFAULT_CATEGORY_STR, "main.cc", 10,
              <<StrArg("ready")>>)
    \/ log_impl(1)
    \/ Invoke(1)
    \/ Return(1)
    \/ \E backend \in Backends : set_backend(2, backend)
    \/ reset_backend(2)
    \/ StoreBackend(2)

SpecLogRace == Init /\ [][NextLogRace]_vars

(* ------------------------------- claims -------------------------------- *)

RaiseOps == {"throw", "throw_if", "throw_unless", "call", "destroy"}

\* the last operation raised a failure that is now propagating
Raised ==
    /\ last.op \in RaiseOps
    /\ last.raise # None
    /\ ~terminated
    /\ inflight # None

\* the failures of a chain, head first
RECURSIVE Chain(_)
Chain(e) == IF e.nested = None THEN <<e>> ELSE <<e>> \o Chain(e.nested[1])

AllStd(e) == \A k \in 1..Len(Chain(e)) : "exception" \in Chain(e)[k].bases

\* the lines of the failures k..n of a chain, line k indented by 2*(k-1)
RECURSIVE TraceLines(_, _)
TraceLines(chain, k) ==
    IF k > Len(chain) THEN ""
    ELSE Spaces(2 * (k - 1)) \o ARROW \o " " \o chain[k].what \o "\n"
             \o TraceLines(chain, k + 1)

\* C1: a failure raised by throw_exception while a handler is active has the
\* failure of that handler as its cause, and a failure raised while no
\* handler is active has no cause.
C1_CauseIsHandledFailure ==
    Raised => inflight[1].nested = current_exception

C1_Witness ==
    /\ Raised /\ last.op = "throw"
    /\ current_exception # None
    /\ inflight[1].nested = current_exception

\* C2: get_nested_trace of a chain of n standard failures is the n lines
\* 2*k spaces, the arrow, a space, the message of failure k and a newline,
\* for k = 0 (the head) to n - 1 (the oldest cause), in this order.
C2_TraceLines ==
    (last.op = "trace" /\ AllStd(last.e)) =>
        last.text = TraceLines(Chain(last.e), 1)

C2_Witness ==
    /\ last.op = "trace" /\ AllStd(last.e)
    /\ Len(Chain(last.e)) = 3
    /\ last.text = TraceLines(Chain(last.e), 1)

\* C3: an enforcer instance invokes its raiser at most once, whatever message
\* calls are made on it before it is destroyed.
C3_RaisesAtMostOnce ==
    /\ eh.raises <= 1
    /\ last.op = "destroy" => last.raises <= 1

\* C4: destroying a failed enforcer on which no message call was made invokes
\* the raiser exactly once, with a message that contains the expression text
\* and the description of the predicate.
C4_DestroyRaisesDefault ==
    (last.op = "destroy" /\ last.e.failed_ /\ last.h.calls = 0) =>
        /\ last.raises = 1
        /\ last.raise # None
        /\ LET message == build_message(last.raise[1].args)
           IN  /\ Contains(message, last.e.expr_)
               /\ Contains(message, description(last.e.predicate_))
               /\ (~terminated /\ inflight # None) => Contains(inflight[1].what, message)

C4_Witness ==
    /\ last.op = "destroy" /\ last.e.failed_ /\ last.h.calls = 0
    /\ last.e.predicate_.p = "equal_to"
    /\ last.raises = 1
    /\ inflight # None /\ Contains(inflight[1].what, "x == 6")

\* C5: a message call on a failed enforcer invokes the raiser at once with the
\* arguments of the call and sets handled_; destroying an enforcer whose
\* handled_ is set raises nothing.
C5_CallRaisesWithItsMessage ==
    /\ (last.op = "call" /\ enf.failed_) =>
          /\ last.raise # None
          /\ last.raise[1].args = last.args
          /\ enf.handled_
          /\ (~terminated /\ inflight # None) =>
                 inflight[1].what = format_location(enf.file_, enf.line_) \o " "
                                        \o build_message(last.args)
    /\ (last.op = "destroy" /\ last.h.calls > 0) => last.raise = None

C5_Witness ==
    /\ last.op = "destroy" /\ last.e.failed_ /\ last.h.calls > 0
    /\ last.raise = None /\ last.raises = 1
    /\ inflight # None

\* C6: an enforcer whose predicate passed never invokes the raiser, and its
\* conversion and get() return the value that was checked (as long as the
\* caller did not assign through get()).
C6_PassedNeverRaises ==
    /\ (enf.alive /\ check(enf.predicate_, eh.checked)) => eh.raises = 0
    /\ (last.op = "destroy" /\ check(last.e.predicate_, last.h.checked)) =>
            last.raises = 0 /\ last.raise = None
    /\ (last.op \in {"convert", "get"} /\ check(enf.predicate_, eh.checked)
            /\ ~eh.written) => last.got = eh.checked

C6_Witness ==
    /\ last.op = "destroy" /\ check(last.e.predicate_, last.h.checked)
    /\ last.h.calls = MaxCalls /\ last.raises = 0

\* C7: the outcome stored at construction is that of the predicate on the
\* value checked then, and it alone decides whether a message call raises,
\* also after the held value was changed through get().
C7_OutcomeFixedAtConstruction ==
    /\ enf.alive => (enf.failed_ <=> ~check(enf.predicate_, eh.checked))
    /\ (last.op = "call") =>
            ((last.raise # None) <=> ~check(enf.predicate_, eh.checked))
    /\ (last.op = "destroy" /\ last.h.calls = 0) =>
            ((last.raise # None) <=> ~check(last.e.predicate_, last.h.checked))

C7_Witness ==
    /\ last.op = "call" /\ eh.written
    /\ check(enf.predicate_, enf.value_) # check(enf.predicate_, eh.checked)
    /\ (last.raise # None) <=> ~check(enf.predicate_, eh.checked)

\* C8: enforce_eq(v, e) fails iff v # e, enforce_ne iff v = e, enforce_lt(v, b)
\* iff v >= b, enforce_gt(v, b) iff v <= b, enforce_in_range(v, lo, hi) iff
\* v < lo or v > hi.
C8_ComparisonsFailIffRelationFalse ==
    /\ last.op = "enforce_eq" => (enf.failed_ <=> last.value # last.a)
    /\ last.op = "enforce_ne" => (enf.failed_ <=> last.value = last.a)
    /\ last.op = "enforce_lt" => (enf.failed_ <=> last.value >= last.a)
    /\ last.op = "enforce_gt" => (enf.failed_ <=> last.value <= last.a)
    /\ last.op = "enforce_in_range" =>
            (enf.failed_ <=> (last.value < last.a \/ last.value > last.b))

C8_Witness ==
    /\ last.op = "enforce_in_range"
    /\ last.a = last.value /\ last.b = last.value
    /\ enf.alive /\ ~enf.failed_

\* C9: the failure raised by a raise of kind K is caught by a handler for K,
\* with or without a cause.
C9_KindIsCaught ==
    Raised => Catches(last.raise[1].kind, inflight[1])

C9_Witness ==
    /\ Raised /\ last.op = "call"
    /\ last.raise[1].kind = "logic_error"
    /\ inflight[1].nested # None
    /\ Catches("logic_error", inflight[1])

\* C10: the text of a failure of a kind constructible from text, raised at
\* file f and line l with arguments args, is "[f:l] " followed by
\* build_message(args).
C10_TextIsLocationAndMessage ==
    (Raised /\ has_string_constructor(last.raise[1].kind)) =>
        inflight[1].what =
            "[" \o last.raise[1].file \o ":" \o IntToStr(last.raise[1].line) \o "] "
                \o build_message(last.raise[1].args)

C10_Witness ==
    /\ Raised /\ last.op = "throw"
    /\ last.raise[1].line = 120
    /\ inflight[1].what = "[a.cc:120] code: 42"

\* C11 as stated: the text of every raised failure contains the location and
\* the message it was raised with, whatever its kind.
C11_TextAlwaysContains ==
    Raised =>
        /\ Contains(inflight[1].what,
                    format_location(last.raise[1].file, last.raise[1].line))
        /\ Contains(inflight[1].what, build_message(last.raise[1].args))

\* C11 amended: the text of a raised failure contains the location and the
\* message when its kind can be constructed from text; a failure of a kind
\* with no constructor taking text carries the text of its default
\* construction, whatever location and message it was raised with.
C11_TextContainsIfConstructible ==
    Raised =>
        IF has_string_constructor(last.raise[1].kind)
        THEN /\ Contains(inflight[1].what,
                         format_location(last.raise[1].file, last.raise[1].line))
             /\ Contains(inflight[1].what, build_message(last.raise[1].args))
        ELSE inflight[1].what = NewException(last.raise[1].kind, "").what

C11_Witness ==
    /\ Raised /\ last.op = "throw"
    /\ last.raise[1].kind = "NoStringException"
    /\ last.raise[1].args = <<StrArg("Ignored")>>
    /\ inflight[1].what = "NoStringException"
    /\ inflight[1].nested # None

\* C12: THROW_IF raises a failure of kind K iff its condition is true and
\* THROW_UNLESS iff its condition is false; when none is raised the message
\* arguments were not evaluated and execution goes on after the call.
C12_ConditionalRaise ==
    /\ last.op = "throw_if" => ((last.raise # None) <=> last.condition)
    /\ last.op = "throw_unless" => ((last.raise # None) <=> ~last.condition)
    /\ last.op \in {"throw_if", "throw_unless"} =>
          IF last.raise = None
          THEN ~last.evaluated /\ inflight = None /\ ~terminated
          ELSE /\ inflight # None
               /\ inflight[1].kind = last.raise[1].kind
               /\ Catches(last.raise[1].kind, inflight[1])

C12_Witness ==
    /\ last.op = "throw_unless" /\ ~last.condition
    /\ Raised /\ inflight[1].kind = "invalid_argument"
    /\ caught # <<>> /\ caught[Len(caught)].kind = "runtime_error"

\* the rendering of one value on its own
Render(value) == append_to_stream(NewStream, value).buf

\* the renderings of the arguments k..n with one space between neighbours
RECURSIVE Joined(_, _)
Joined(args, k) ==
    IF k > Len(args) THEN ""
    ELSE IF k = Len(args) THEN Render(args[k])
    ELSE Render(args[k]) \o " " \o Joined(args, k + 1)

\* C13: build_message(a1, ..., an) is the renderings of the arguments in
\* order with exactly one space between neighbours and none after the last,
\* empty and space-ending renderings kept as they are; build_message() is "".
C13_JoinedBySingleSpaces ==
    last.op = "build_message" =>
        /\ last.text = Joined(last.args, 1)
        /\ Len(last.args) = 0 => last.text = ""

C13_Witness ==
    /\ last.op = "build_message"
    /\ last.args = <<StrArg(""), StrArg(""), StrArg("")>>
    /\ last.text = "  "

\* std::string::rfind(prefix, 0) == 0
StartsWith(s, prefix) == Len(s) >= Len(prefix) /\ SubSeq(s, 1, Len(prefix)) = prefix

\* C14: hex with show_base writes "0x" before a non-pointer value unless the
\* value and the width are both zero, and before a pointer iff it is not
\* null; a null pointer is rendered as "nullptr", whatever the width and case.
C14_HexBasePrefix ==
    (last.op = "build_message" /\ Len(last.args) = 1 /\ last.args[1].t = "hex") =>
        LET fmt == last.args[1]
            pointer == fmt.value.t = "ptr"
            value == fmt.value.n
        IN  /\ (fmt.show_base /\ ~pointer) =>
                  (StartsWith(last.text, "0x") <=> ~(value = 0 /\ fmt.width = 0))
            /\ (fmt.show_base /\ pointer) =>
                  (StartsWith(last.text, "0x") <=> value # 0)
            /\ (pointer /\ value = 0) => last.text = "nullptr"

\* the last message was one bin formatter
BinCall == last.op = "build_message" /\ Len(last.args) = 1 /\ last.args[1].t = "bin"

\* the text of a bin formatter after its "0b"
BinBody == IF last.args[1].show_base THEN SubSeq(last.text, 3, Len(last.text)) ELSE last.text

RECURSIVE RemoveSpaces(_)
RemoveSpaces(s) ==
    IF s = "" THEN ""
    ELSE (IF Head(s) = Head(" ") THEN "" ELSE SubSeq(s, 1, 1)) \o RemoveSpaces(Tail(s))

\* a space before every g characters counted from the right end
RECURSIVE GroupFromRight(_, _)
GroupFromRight(bits, g) ==
    IF Len(bits) <= g THEN bits
    ELSE GroupFromRight(SubSeq(bits, 1, Len(bits) - g), g) \o " "
             \o SubSeq(bits, Len(bits) - g + 1, Len(bits))

\* a space after every g characters counted from the left end
RECURSIVE GroupFromLeft(_, _)
GroupFromLeft(bits, g) ==
    IF Len(bits) <= g THEN bits
    ELSE SubSeq(bits, 1, g) \o " " \o GroupFromLeft(SubSeq(bits, g + 1, Len(bits)), g)

\* C15 as stated: with group_size g > 0 one space separates every g bits
\* counted from the rightmost bit, so that only the leftmost group may be
\* short; g = 0 inserts no space.
C15_GroupedFromLeastSignificant ==
    BinCall =>
        LET g == last.args[1].group_size
        IN  BinBody = IF g > 0 THEN GroupFromRight(RemoveSpaces(BinBody), g)
                      ELSE RemoveSpaces(BinBody)

\* C15 amended: with group_size g > 0 one space separates every g bits
\* counted from the leftmost shown bit, so that only the rightmost group may
\* be short; g = 0 inserts no space.
C15_GroupedFromMostSignificant ==
    BinCall =>
        LET g == last.args[1].group_size
        IN  BinBody = IF g > 0 THEN GroupFromLeft(RemoveSpaces(BinBody), g)
                      ELSE RemoveSpaces(BinBody)

C15_Witness ==
    /\ BinCall
    /\ last.args[1] = bin(IntArg(5), 0, TRUE, 2)
    /\ last.text = "0b10 1"

\* the number of binary digits of u, 0 for u = 0
RECURSIVE BitLength(_)
BitLength(u) == IF u = 0 THEN 0 ELSE 1 + BitLength(u \div 2)

\* the n low-order binary digits of u, the most significant first
RECURSIVE LowBits(_, _)
LowBits(u, n) ==
    IF n = 0 THEN "" ELSE LowBits(u \div 2, n - 1) \o (IF u % 2 = 1 THEN "1" ELSE "0")

\* C16: bin shows exactly width bits when width is nonzero, the low-order
\* width bits of the value padded with zeros on the left; with width zero it
\* shows the bits up to the highest set bit, and the one bit "0" for zero.
C16_BinShowsWidthBits ==
    BinCall =>
        LET fmt == last.args[1]
            uvalue == ToUnsigned(fmt.value.n, SizeBits(fmt.value))
            n == IF fmt.width > 0 THEN fmt.width
                 ELSE IF uvalue = 0 THEN 1 ELSE BitLength(uvalue)
        IN  RemoveSpaces(BinBody) = LowBits(uvalue, n)

\* the last message was one container formatter in the single-line format
\* without indices
ContainerCall ==
    /\ last.op = "build_message" /\ Len(last.args) = 1
    /\ last.args[1].t = "container"
    /\ ~last.args[1].multiline /\ ~last.args[1].show_indices

\* the renderings of the elements from..to of items with delim between them
RECURSIVE JoinedWith(_, _, _, _)
JoinedWith(items, from, to, delim) ==
    IF from > to THEN ""
    ELSE IF from = to THEN Render(items[from])
    ELSE Render(items[from]) \o delim \o JoinedWith(items, from + 1, to, delim)

\* prefix, the elements of the window, the ellipsis if elements remain beyond
\* it, suffix; bare is whether the ellipsis stands without a delimiter when
\* the window is empty
WindowText(fmt, bare) ==
    LET size == Len(fmt.value)
        shown == Min(fmt.max_items, size - fmt.start_index)
    IN  IF fmt.start_index >= size THEN fmt.prefix \o fmt.suffix
        ELSE fmt.prefix
                 \o JoinedWith(fmt.value, fmt.start_index + 1,
                               fmt.start_index + shown, fmt.delimiter)
                 \o (IF fmt.start_index + shown < size
                     THEN (IF bare /\ shown = 0 THEN "" ELSE fmt.delimiter)
                              \o fmt.ellipsis
                     ELSE "")
                 \o fmt.suffix

\* C17 as stated: the container formatter renders prefix, the elements
\* start_index .. start_index + min(max_items, size - start_index) - 1 with
\* delimiter between them, then, iff elements remain beyond that window,
\* delimiter and ellipsis, then suffix; prefix and suffix only when
\* start_index is not below the size.
C17_WindowThenDelimiterEllipsis ==
    ContainerCall => last.text = WindowText(last.args[1], FALSE)

\* C17 amended: as stated, except that the ellipsis is preceded by delimiter
\* only when the window holds at least one element.
C17_WindowThenEllipsis ==
    ContainerCall => last.text = WindowText(last.args[1], TRUE)

C17_Witness ==
    /\ ContainerCall
    /\ Len(last.args[1].value) = 2
    /\ last.args[1].max_items = 0
    /\ last.args[1].start_index = 1
    /\ last.text = "[...]"

\* the names of the steps of a raise, in order
StepNames(steps) == [k \in 1..Len(steps) |-> steps[k].step]

\* C18: a raise through throw_exception throws without printing or trapping
\* in normal mode; in trap-then-raise mode it prints location and message,
\* then traps, then throws; in trap-only mode it prints, traps and terminates
\* the process, and no failure ever propagates.
C18_TrapModesOrderSteps ==
    /\ trap_mode = 2 => (inflight = None /\ caught = <<>>)
    /\ (last.op \in RaiseOps /\ last.raise # None
            /\ last.raise[1].kind # "trap_raiser") =>
          LET r == last.raise[1]
              printed == r.steps[1].text
          IN  /\ StepNames(r.steps) =
                    CASE trap_mode = 0 -> <<"throw">>
                      [] trap_mode = 1 -> <<"print", "trap", "throw">>
                      [] trap_mode = 2 -> <<"print", "trap", "terminate">>
              /\ trap_mode # 0 =>
                    /\ Contains(printed, format_location(r.file, r.line))
                    /\ Contains(printed, build_message(r.args))
              /\ trap_mode = 2 => terminated
              /\ (trap_mode # 2 /\ ~r.unwinding) =>
                    /\ ~terminated /\ inflight # None
                    /\ inflight[1].kind = r.kind

C18_Witness ==
    /\ trap_mode = 1
    /\ last.op = "destroy" /\ last.raise # None
    /\ last.raise[1].kind = "runtime_error"
    /\ StepNames(last.raise[1].steps) = <<"print", "trap", "throw">>
    /\ ~terminated /\ inflight # None
    /\ inflight[1].nested # None

\* the number of leading failures of a chain that are standard failures
RECURSIVE StdPrefix(_)
StdPrefix(chain) ==
    IF chain = <<>> \/ "exception" \notin chain[1].bases THEN 0
    ELSE 1 + StdPrefix(Tail(chain))

\* the trace of a chain whose first n failures are standard and whose next
\* one is not: the n lines, then the given placeholder at the indent of line n + 1
UnknownCauseTrace(chain, n, placeholder) ==
    TraceLines(SubSeq(chain, 1, n), 1)
        \o Spaces(2 * n) \o ARROW \o " " \o placeholder \o "\n"

\* a traced chain that holds a cause that is not a standard failure
UnknownCauseTraced ==
    /\ last.op = "trace"
    /\ ~AllStd(last.e)

\* C19 as stated: the trace of a chain whose cause is not a standard failure
\* ends, after the lines of the standard failures, with the placeholder line
\* "[unknown nested cause]".
C19_UnknownNestedCause ==
    UnknownCauseTraced =>
        last.text = UnknownCauseTrace(Chain(last.e), StdPrefix(Chain(last.e)),
                                      "[unknown nested cause]")

\* C19 amended: the placeholder line reads "[unknown nested exception]"; it
\* stands at the indent of the cause it replaces and is the last line.
C19_UnknownNestedException ==
    UnknownCauseTraced =>
        last.text = UnknownCauseTrace(Chain(last.e), StdPrefix(Chain(last.e)),
                                      "[unknown nested exception]")

C19_Witness ==
    /\ UnknownCauseTraced
    /\ StdPrefix(Chain(last.e)) = 2
    /\ Len(Chain(last.e)) = 3
    /\ Contains(last.text, "    " \o ARROW \o " [unknown nested exception]\n")

LastHits ==
    { i \in 1..Len(sink) : sink[i].thread = last.thread /\ sink[i].seq = last.seq }

\* C21: after any sequence of set_enabled and set_min_level calls a log call
\* at level L invokes the backend iff logging is enabled and L is at or above
\* the minimum level, and then exactly once, with the call's level, category,
\* file and line and the message built from its arguments.
C21_DeliveredIffEnabled ==
    last.op = "log" =>
        IF config.enabled /\ last.call.level >= config.min_level
        THEN /\ Cardinality(LastHits) = 1
             /\ \A i \in LastHits :
                   /\ sink[i].level = last.call.level
                   /\ sink[i].category = last.call.category
                   /\ sink[i].file = last.call.file
                   /\ sink[i].line = last.call.line
                   /\ sink[i].message = build_message(last.call.args)
        ELSE LastHits = {}

\* a call was delivered after the level and the switch were both changed, and
\* another one was filtered out by the switch alone
C21_Witness ==
    /\ last.op = "log" /\ config.stores = MaxStores
    /\ ~config.enabled /\ last.call.level >= config.min_level
    /\ Len(sink) = 1 /\ sink[1].message = "n= 42" /\ sink[1].seq = 1

\* C22: the arguments of a LOG_<LEVEL> or LOG_CAT_<LEVEL> call are evaluated
\* only if logging is enabled and the level is at or above the minimum level.
C22_ArgumentsEvaluatedOnlyIfEnabled ==
    (last.op = "log" /\ last.call.macro \in {"LOG", "LOG_CAT"} /\ last.call.evaluated)
        => (config.enabled /\ last.call.level >= config.min_level)


\* the backend invocations made for call number n of thread t
Hits(t, n) == { i \in 1..Len(sink) : sink[i].thread = t /\ sink[i].seq = n }

\* C23: when several threads issue enabled log calls at the same time and
\* the configuration is not changed, the backend is invoked exactly once for
\* each call: no finished call has none or two invocations, and a call that
\* has not yet reached the backend's return has none.
C23_OncePerConcurrentCall ==
    \A t \in Threads : \A n \in 1..threads[t].calls :
        Cardinality(Hits(t, n)) =
            IF n < threads[t].calls \/ threads[t].pc = "idle" THEN 1 ELSE 0

\* both threads are inside the backend at once after one of them has
\* already logged
C23_Witness ==
    /\ threads[1].pc = "invoke" /\ threads[2].pc = "invoke"
    /\ Len(sink) = 1 /\ sink[1].message = "Thread 2"


\* C24: after any sequence of set_backend and reset_backend calls the
\* backend is never empty (a null backend and a reset install the default
\* one), and a message delivered afterwards goes only to the backend
\* installed by the most recent of these calls.
C24_MostRecentBackendOnly ==
    /\ config.backend # NullBackend
    /\ (last.op = "log" /\ config.installs # <<>>) =>
          \A i \in LastHits :
              sink[i].backend =
                  IF config.installs[Len(config.installs)] = NullBackend
                  THEN default_cerr_backend
                  ELSE config.installs[Len(config.installs)]

\* a message went to a custom backend and, after a null backend was given,
\* the next one went to the default backend
C24_Witness ==
    /\ last.op = "log" /\ config.installs = <<"new_backend", NullBackend>>
    /\ Len(sink) = 2 /\ sink[1].backend = "new_backend"
    /\ sink[2].backend = default_cerr_backend


\* C25: a log call that runs at the same time as set_backend or
\* reset_backend never uses the backend while it is being replaced: no
\* invocation overlaps an assignment of the backend, and every invocation ran
\* a whole backend, the previous or the new one.
C25_BackendNeverReadWhileReplaced ==
    /\ \A t \in Threads : threads[t].pc = "invoke" => threads[t].call.raced = None
    /\ \A i \in 1..Len(sink) : sink[i].backend # TornBackend


\* C26: the cause recorded by a raise is the failure of the innermost
\* active handler of the raising thread: with nested handlers the most
\* recently caught one, never a failure handled by another thread, and none
\* when the thread has no active handler (any earlier handler has finished).
C26_CauseFromRaisingThreadOnly ==
    /\ (last.op = "throw" /\ inflight # None) =>
          inflight[1].nested =
              IF caught = <<>> THEN None ELSE Some(caught[Len(caught)])
    /\ (last.op = "peer_throw" /\ peer.inflight # None) =>
          peer.inflight[1].nested =
              IF peer.caught = <<>> THEN None ELSE Some(peer.caught[Len(peer.caught)])

\* the first thread raises with no handler of its own while the second
\* thread is handling a failure inside the handler of another one
C26_Witness ==
    /\ last.op = "throw" /\ inflight # None /\ caught = <<>> /\ nraise = MaxRaises
    /\ inflight[1].nested = None
    /\ Len(peer.caught) = 2 /\ peer.caught[2].nested = Some(peer.caught[1])


\* C27: with the default raiser, a raiser of a specific kind and the trap
\* raiser alike, a message call on an enforcer returns to its caller only if
\* the predicate passed for the checked value: after a call on a failed
\* enforcer a failure is propagating or the process has terminated.
C27_CallReturnsOnlyIfPassed ==
    (last.op = "call" /\ ~terminated /\ inflight = None)
        => check(enf.predicate_, eh.checked)

\* a message call on a failed enforcer with the trap raiser ended the process
\* in a build that raises normally
C27_Witness ==
    /\ last.op = "call" /\ enf.raiser = "trap_raiser" /\ trap_mode = 0
    /\ ~check(enf.predicate_, eh.checked) /\ terminated /\ inflight = None


\* C28: the raise an enforcer makes when its scope is left (failed, no
\* message call made) never happens while another failure is propagating
\* through that scope.
C28_NoScopeExitRaiseWhileUnwinding ==
    (last.op = "destroy" /\ last.raise # None) => ~last.raise[1].unwinding

\* C29: conversion to the value type and get() on a failed enforcer return
\* the value only if the raiser has already been invoked for that enforcer.
C29_FailedValueOnlyAfterRaise ==
    (last.op \in {"convert", "get"} /\ enf.failed_) => eh.raises > 0


\* C30: appending a hex, oct or bin formatter to a stream leaves the
\* formatting state of the stream as it was before the call: the base and
\* case flags, the fill character and the pending field width.
C30_FormattersLeaveStreamState ==
    (last.op = "append_to_stream" /\ last.value.t \in {"hex", "oct", "bin"}) =>
        /\ last.after.base = last.before.base
        /\ last.after.upper = last.before.upper
        /\ last.after.fill = last.before.fill
        /\ last.after.width = last.before.width


====
